---- MODULE Spec2Model ----
(***************************************************************************)
(* Progression core of Real-Food: XP ledger and levels, the activity and   *)
(* nutrition streak trackers, and the achievement unlock engine.           *)
(*                                                                         *)
(* One user is modelled (every table is filtered by user_id, users do not  *)
(* share rows).  Calendar dates are day numbers; a DateTime is the day it  *)
(* falls on.  An Optional value is <<>> (None) or <<v>>.  Tables without a *)
(* uniqueness constraint are bags of rows.                                 *)
(***************************************************************************)
EXTENDS Integers, Sequences, FiniteSets, Bags, TLC

VARIABLES
    now,                \* current UTC day (datetime.utcnow().date())
    xp_points,          \* User.xp_points
    current_streak,     \* User.current_streak
    longest_streak,     \* User.longest_streak
    last_active_date,   \* User.last_active_date (Optional day)
    xp_transactions,    \* bag of XPTransaction rows [reason, amount, created_at]
    user_achievements,  \* bag of UserAchievement rows (achievement names)
    ns,                 \* Optional NutritionStreak row of the user
    food_log_count,     \* number of FoodLog rows of the user
    sessions,           \* concurrent requests: the user's rows each has read and not yet committed
    qualifying_days,    \* history: Some(days) while every update_nutrition_streak call
                        \* so far qualified, each for a later day than the one before
    daily_quests,       \* bag of DailyQuest rows (of all users)
    rng,                \* state of the module-level random generator of each process
    quest_sessions,     \* quest requests that have read and not yet written: what each has read
    quest_runs,         \* history: what each run of _generate_quests has selected
    food_logs,          \* bag of FoodLog rows [date, nutrition_snapshot] of the user
    targets,            \* Optional NutritionTarget row of the user
    summaries,          \* bag of DailyNutritionSummary rows of the user
    ret                 \* the last request and its response

vars == <<now, xp_points, current_streak, longest_streak, last_active_date,
          xp_transactions, user_achievements, ns, food_log_count, sessions,
          qualifying_days, daily_quests, rng, quest_sessions, quest_runs,
          food_logs, targets, summaries, ret>>

userVars == <<xp_points, current_streak, longest_streak, last_active_date,
              xp_transactions, user_achievements, ns, food_log_count>>

questVars == <<daily_quests, rng, quest_sessions, quest_runs>>

scoreVars == <<food_logs, targets, summaries>>

----------------------------------------------------------------------------
(* Bounds *)

MaxDay == 3
MaxTx == 3
MaxTierTx == 2
MaxQuestDebt == 1
MaxPartial == 2
MaxLogs == 2
MaxEventLogs == 3

(* Inputs *)

DayArgs == 1..MaxDay
Scores == {59, 90}
StreakScores == {59, 60, 90}
TierScores == {59, 60, 74, 75, 89, 90}
TrackerScores == {59, 60}
Amounts == {-200, 100, 950, 1050}
Procs == {1, 2}
QuestAmounts == {-1, 1, 200}
ProgressAmounts == {1, 200}

(* Nutrition of a logged food, in tenths: a full day of the default macro *)
(* targets; half a day spelled with the _g names, fat over target, copper *)
(* at its default target and half the iron; a snack with an empty protein *)
(* field next to protein_g and three times the vitamin C target.          *)
Nutrition == {
    [calories |-> 22000, protein |-> 1300, carbs |-> 2500, fat |-> 750,
     fiber |-> 300],
    [protein_g |-> 650, carbs_g |-> 1250, fat_g |-> 1500, copper_mg |-> 9,
     iron_mg |-> 90],
    [calories |-> 5000, protein |-> 0, protein_g |-> 325, fiber |-> 100,
     vitamin_c_mg |-> 2700] }

(* Bodies of PUT /targets, in tenths: a protein target of zero; a fiber   *)
(* target of half a gram with a zero copper and a half-milligram zinc     *)
(* target.                                                                *)
TargetPayloads == {
    [protein_g_target |-> 0],
    [fiber_g_target |-> 5,
     micronutrient_targets |-> [copper_mg |-> 0, zinc_mg |-> 5]] }

----------------------------------------------------------------------------
(* Values *)

None == <<>>
Some(v) == <<v>>
IsSome(o) == o /= <<>>
Val(o) == o[1]

Max(a, b) == IF a >= b THEN a ELSE b

RECURSIVE SumAmounts(_)
SumAmounts(B) ==
    IF BagToSet(B) = {} THEN 0
    ELSE LET e == CHOOSE x \in BagToSet(B) : TRUE
             rest == [x \in BagToSet(B) \ {e} |-> B[x]]
         IN  e.amount * B[e] + SumAmounts(rest)

Row(B, r) == B (+) SetToBag({r})

XP_PER_LEVEL == 1000

calculate_level(xp) == (xp \div XP_PER_LEVEL) + 1

NutritionStreakDefault ==
    [current_streak |-> 0, longest_streak |-> 0,
     last_qualifying_date |-> None, threshold |-> 60]

(* The rows of the store that belong to the user. *)
DB == [xp_points |-> xp_points,
       current_streak |-> current_streak,
       longest_streak |-> longest_streak,
       last_active_date |-> last_active_date,
       xp_transactions |-> xp_transactions,
       user_achievements |-> user_achievements,
       ns |-> ns,
       food_log_count |-> food_log_count,
       summaries |-> summaries]

XPTransaction(reason, amount, t) ==
    [reason |-> reason, amount |-> amount, created_at |-> t]

----------------------------------------------------------------------------
(* Achievement catalog (the criterion kinds the modelled operations move) *)

ACHIEVEMENT_DEFS == <<
    [name |-> "Streak Starter", xp_reward |-> 100, type |-> "streak", target |-> 3],
    [name |-> "First Steps", xp_reward |-> 50, type |-> "level", target |-> 2],
    [name |-> "Bronze Eater", xp_reward |-> 150, type |-> "nutrition_streak", target |-> 3],
    [name |-> "First Log", xp_reward |-> 50, type |-> "food_log_count", target |-> 1] >>

AchIds == 1..Len(ACHIEVEMENT_DEFS)

AchNames == {ACHIEVEMENT_DEFS[i].name : i \in AchIds}

(* db.query(Achievement).all() has no ORDER BY: the rows come in insertion *)
(* order or in another one; the catalog order and its reverse are drawn.   *)
Orders == {[i \in AchIds |-> i], [i \in AchIds |-> Len(ACHIEVEMENT_DEFS) + 1 - i]}

(* The tier-day row of the catalog, carried by the food-log specifications. *)
FIRST_BRONZE_DAY ==
    [name |-> "First Bronze Day", xp_reward |-> 100, type |-> "bronze_days", target |-> 1]

(* A row of the achievements table whose criteria type no branch of *)
(* check_achievements knows.                                        *)
UNKNOWN_KIND ==
    [name |-> "Legacy Badge", xp_reward |-> 75, type |-> "recipes_cooked", target |-> 0]

(* The achievements table; db.query(Achievement).all() is given as the *)
(* sequence of the positions of the rows it returns.                   *)
Achievements == ACHIEVEMENT_DEFS \o <<FIRST_BRONZE_DAY, UNKNOWN_KIND>>

RowOf(name) == CHOOSE i \in DOMAIN Achievements : Achievements[i].name = name

----------------------------------------------------------------------------
(* award_xp: ledger row plus cached total, and the level-up report *)

LEVEL_TITLES == <<
    "Curious Cook", "Kitchen Explorer", "Whole Food Rookie",
    "Nourishment Seeker", "Whole Food Warrior", "Nutrition Navigator",
    "Clean Eating Champion", "Macro Master", "Micronutrient Maven",
    "Nutrition Master", "Culinary Virtuoso", "Superfood Sage",
    "Wellness Architect", "Legendary Nourisher", "Whole Food Grandmaster" >>

level_title(level) ==
    IF level \in DOMAIN LEVEL_TITLES THEN LEVEL_TITLES[level]
    ELSE "Grandmaster (Lv." \o ToString(level) \o ")"

(* Variant: the cached total is raised but no ledger row is written. *)
award_xp_without_row(db, amount, reason, t) ==
    LET old_level == (db.xp_points \div XP_PER_LEVEL) + 1
        total == db.xp_points + amount
        new_level == (total \div XP_PER_LEVEL) + 1
    IN  [db |-> [db EXCEPT !.xp_points = total],
         result |-> [xp_gained |-> amount,
                     total_xp |-> total,
                     new_level |-> IF new_level > old_level
                                   THEN Some(new_level) ELSE None,
                     level_title |-> IF new_level > old_level
                                     THEN Some(level_title(new_level)) ELSE None]]

(* Variant: the level is reported after every award, level-up or not. *)
award_xp_always_level(db, amount, reason, t) ==
    LET total == db.xp_points + amount
        new_level == (total \div XP_PER_LEVEL) + 1
    IN  [db |-> [db EXCEPT !.xp_points = total,
                           !.xp_transactions =
                               Row(@, XPTransaction(reason, amount, t))],
         result |-> [xp_gained |-> amount,
                     total_xp |-> total,
                     new_level |-> Some(new_level),
                     level_title |-> Some(level_title(new_level))]]

award_xp(db, amount, reason, t) ==
    LET old_level == (db.xp_points \div XP_PER_LEVEL) + 1
        total == db.xp_points + amount
        new_level == (total \div XP_PER_LEVEL) + 1
    IN  [db |-> [db EXCEPT !.xp_points = total,
                           !.xp_transactions =
                               Row(@, XPTransaction(reason, amount, t))],
         result |-> [xp_gained |-> amount,
                     total_xp |-> total,
                     new_level |-> IF new_level > old_level
                                   THEN Some(new_level) ELSE None,
                     level_title |-> IF new_level > old_level
                                     THEN Some(level_title(new_level)) ELSE None]]

----------------------------------------------------------------------------
(* check_achievements: one pass over the catalog in the order `order` *)

(* _count_nutrition_days: the summaries with daily_score >= min_score *)
(* (stored scores are in tenths)                                       *)
_count_nutrition_days(db, min_score) ==
    BagCardinality([s \in {x \in BagToSet(db.summaries) :
                              x.daily_score >= 10 * min_score} |->
                       db.summaries[s]])

(* Variant: a criteria type without a branch counts as met. *)
CriterionMet_unknown_met(db, ach, nutrition_streak_val) ==
    CASE ach.type = "streak" -> db.current_streak >= ach.target
      [] ach.type = "level" ->
            (db.xp_points \div XP_PER_LEVEL) + 1 >= ach.target
      [] ach.type = "nutrition_streak" -> nutrition_streak_val >= ach.target
      [] ach.type = "bronze_days" -> _count_nutrition_days(db, 60) >= ach.target
      [] ach.type = "silver_days" -> _count_nutrition_days(db, 75) >= ach.target
      [] ach.type = "gold_days" -> _count_nutrition_days(db, 90) >= ach.target
      [] ach.type = "food_log_count" -> db.food_log_count >= ach.target
      [] OTHER -> TRUE

CriterionMet(db, ach, nutrition_streak_val) ==
    CASE ach.type = "streak" -> db.current_streak >= ach.target
      [] ach.type = "level" ->
            (db.xp_points \div XP_PER_LEVEL) + 1 >= ach.target
      [] ach.type = "nutrition_streak" -> nutrition_streak_val >= ach.target
      [] ach.type = "bronze_days" -> _count_nutrition_days(db, 60) >= ach.target
      [] ach.type = "silver_days" -> _count_nutrition_days(db, 75) >= ach.target
      [] ach.type = "gold_days" -> _count_nutrition_days(db, 90) >= ach.target
      [] ach.type = "food_log_count" -> db.food_log_count >= ach.target
      [] OTHER -> FALSE

(* Variant: the unlock record is written without its XP transaction. *)
Unlock_without_transaction(acc, ach, t) ==
    [db |-> [acc.db EXCEPT
                !.user_achievements = Row(@, ach.name),
                !.xp_points = @ + ach.xp_reward],
     newly_unlocked |-> Append(acc.newly_unlocked, ach.name)]

Unlock(acc, ach, t) ==
    [db |-> [acc.db EXCEPT
                !.user_achievements = Row(@, ach.name),
                !.xp_points = @ + ach.xp_reward,
                !.xp_transactions =
                    Row(@, XPTransaction("achievement:" \o ach.name,
                                         ach.xp_reward, t))],
     newly_unlocked |-> Append(acc.newly_unlocked, ach.name)]

RECURSIVE CheckLoop(_, _, _, _, _, _)
CheckLoop(acc, unlocked_ids, nutrition_streak_val, order, i, t) ==
    IF i > Len(order) THEN acc
    ELSE LET ach == Achievements[order[i]]
             next == IF ach.name \in unlocked_ids THEN acc
                     ELSE IF CriterionMet(acc.db, ach, nutrition_streak_val)
                          THEN Unlock(acc, ach, t)
                          ELSE acc
         IN  CheckLoop(next, unlocked_ids, nutrition_streak_val, order, i + 1, t)

(* Variant: the pass does not look at the user's unlocked set. *)
check_achievements_unfiltered(db, order, t) ==
    LET nutrition_streak_val ==
            IF IsSome(db.ns) THEN Val(db.ns).current_streak ELSE 0
    IN  CheckLoop([db |-> db, newly_unlocked |-> <<>>],
                  {}, nutrition_streak_val, order, 1, t)

check_achievements(db, order, t) ==
    LET unlocked_ids == BagToSet(db.user_achievements)
        nutrition_streak_val ==
            IF IsSome(db.ns) THEN Val(db.ns).current_streak ELSE 0
    IN  CheckLoop([db |-> db, newly_unlocked |-> <<>>],
                  unlocked_ids, nutrition_streak_val, order, 1, t)

----------------------------------------------------------------------------
(* update_nutrition_streak *)

TierReasons ==
    {"nutrition_tier:Gold", "nutrition_tier:Silver", "nutrition_tier:Bronze"}

HasTierSince(db, today) ==
    \E tx \in BagToSet(db.xp_transactions) :
        /\ tx.reason \in TierReasons
        /\ tx.created_at >= today

(* Variant: Silver starts at 80. *)
TierOf_silver_at_80(daily_score) ==
    IF daily_score >= 90 THEN [xp |-> 200, label |-> "Gold"]
    ELSE IF daily_score >= 80 THEN [xp |-> 100, label |-> "Silver"]
    ELSE [xp |-> 50, label |-> "Bronze"]

TierOf(daily_score) ==
    IF daily_score >= 90 THEN [xp |-> 200, label |-> "Gold"]
    ELSE IF daily_score >= 75 THEN [xp |-> 100, label |-> "Silver"]
    ELSE [xp |-> 50, label |-> "Bronze"]

(* Variant: a qualifying day after any gap extends the streak. *)
StreakStep_any_gap(row, daily_score, today) ==
    LET last_q == row.last_qualifying_date
        qualifies == daily_score >= row.threshold
        cur == IF IsSome(last_q) /\ today - Val(last_q) >= 1
                   THEN row.current_streak + 1
               ELSE IF last_q = Some(today) THEN row.current_streak
               ELSE 1
    IN  IF qualifies
        THEN [row EXCEPT !.current_streak = cur,
                         !.last_qualifying_date = Some(today),
                         !.longest_streak = IF cur > @ THEN cur ELSE @]
        ELSE IF IsSome(last_q) /\ last_q /= Some(today) /\ today - Val(last_q) > 1
             THEN [row EXCEPT !.current_streak = 0]
             ELSE row

(* Variant: a second qualifying call of the day counts again. *)
StreakStep_same_day_counts(row, daily_score, today) ==
    LET last_q == row.last_qualifying_date
        qualifies == daily_score >= row.threshold
        cur == IF IsSome(last_q) /\ today - Val(last_q) = 1
                   THEN row.current_streak + 1
               ELSE IF last_q = Some(today) THEN row.current_streak + 1
               ELSE 1
    IN  IF qualifies
        THEN [row EXCEPT !.current_streak = cur,
                         !.last_qualifying_date = Some(today),
                         !.longest_streak = IF cur > @ THEN cur ELSE @]
        ELSE IF IsSome(last_q) /\ last_q /= Some(today) /\ today - Val(last_q) > 1
             THEN [row EXCEPT !.current_streak = 0]
             ELSE row

(* Variant: a miss on the day after the last qualifying day resets. *)
StreakStep_no_grace(row, daily_score, today) ==
    LET last_q == row.last_qualifying_date
        qualifies == daily_score >= row.threshold
        cur == IF IsSome(last_q) /\ today - Val(last_q) = 1
                   THEN row.current_streak + 1
               ELSE IF last_q = Some(today) THEN row.current_streak
               ELSE 1
    IN  IF qualifies
        THEN [row EXCEPT !.current_streak = cur,
                         !.last_qualifying_date = Some(today),
                         !.longest_streak = IF cur > @ THEN cur ELSE @]
        ELSE IF IsSome(last_q) /\ last_q /= Some(today) /\ today - Val(last_q) >= 1
             THEN [row EXCEPT !.current_streak = 0]
             ELSE row

StreakStep(row, daily_score, today) ==
    LET last_q == row.last_qualifying_date
        qualifies == daily_score >= row.threshold
        cur == IF IsSome(last_q) /\ today - Val(last_q) = 1
                   THEN row.current_streak + 1
               ELSE IF last_q = Some(today) THEN row.current_streak
               ELSE 1
    IN  IF qualifies
        THEN [row EXCEPT !.current_streak = cur,
                         !.last_qualifying_date = Some(today),
                         !.longest_streak = IF cur > @ THEN cur ELSE @]
        ELSE IF IsSome(last_q) /\ last_q /= Some(today) /\ today - Val(last_q) > 1
             THEN [row EXCEPT !.current_streak = 0]
             ELSE row

update_nutrition_streak(db, daily_score, today, t) ==
    LET row0 == IF IsSome(db.ns) THEN Val(db.ns) ELSE NutritionStreakDefault
        qualifies == daily_score >= row0.threshold
        row == StreakStep(row0, daily_score, today)
        db1 == [db EXCEPT !.ns = Some(row)]
        pay == qualifies /\ ~HasTierSince(db1, today)
        tier == TierOf(daily_score)
    IN  [db |-> IF pay
                THEN award_xp(db1, tier.xp, "nutrition_tier:" \o tier.label, t).db
                ELSE db1,
         result |-> [current_streak |-> row.current_streak,
                     longest_streak |-> row.longest_streak,
                     qualifies |-> qualifies,
                     tier_label |-> IF pay THEN Some(tier.label) ELSE None,
                     tier_xp |-> IF pay THEN tier.xp ELSE 0]]

----------------------------------------------------------------------------
(* Activity streak: POST /streak and GET /me *)

(* Variant: the longest streak is not raised with the current one. *)
ActivityStep_without_longest(db, today) ==
    LET last_active == db.last_active_date
        cur == IF IsSome(last_active) /\ today - Val(last_active) = 1
               THEN db.current_streak + 1 ELSE 1
    IN  [db EXCEPT !.current_streak = cur,
                   !.last_active_date = Some(today)]

ActivityStep(db, today) ==
    LET last_active == db.last_active_date
        cur == IF IsSome(last_active) /\ today - Val(last_active) = 1
               THEN db.current_streak + 1 ELSE 1
    IN  [db EXCEPT !.current_streak = cur,
                   !.longest_streak = IF cur > @ THEN cur ELSE @,
                   !.last_active_date = Some(today)]

_auto_update_streak(db, today) ==
    LET last_active == db.last_active_date
        cur == IF IsSome(last_active) /\ today - Val(last_active) = 1
                   THEN db.current_streak + 1
               ELSE IF last_active = None \/ today - Val(last_active) > 1
                   THEN 1
               ELSE db.current_streak
    IN  IF last_active = Some(today) THEN db
        ELSE [db EXCEPT !.current_streak = cur,
                        !.longest_streak = IF cur > @ THEN cur ELSE @,
                        !.last_active_date = Some(today)]

HasStreakXpSince(db, today) ==
    \E tx \in BagToSet(db.xp_transactions) :
        tx.reason = "daily_streak" /\ tx.created_at >= today

TierRows(B) ==
    [tx \in {x \in BagToSet(B) : x.reason \in TierReasons} |-> B[tx]]

update_streak(db, today, order) ==
    IF db.last_active_date = Some(today)
    THEN [db |-> db, message |-> "Already logged today"]
    ELSE LET db1 == ActivityStep(db, today)
             db2 == IF HasStreakXpSince(db1, today) THEN db1
                    ELSE award_xp(db1, 100, "daily_streak", today).db
         IN  [db |-> check_achievements(db2, order, today).db,
              message |-> "Streak updated"]


----------------------------------------------------------------------------
(* State machine *)

(* The user's rows as the request leaves them. *)
Flush(db) ==
    /\ xp_points' = db.xp_points
    /\ current_streak' = db.current_streak
    /\ longest_streak' = db.longest_streak
    /\ last_active_date' = db.last_active_date
    /\ xp_transactions' = db.xp_transactions
    /\ user_achievements' = db.user_achievements
    /\ ns' = db.ns
    /\ food_log_count' = db.food_log_count

(* The same, while the ledger stays within the bounds. *)
Store(db) ==
    /\ BagCardinality(db.xp_transactions) <= MaxTx
    /\ BagCardinality(TierRows(db.xp_transactions)) <= MaxTierTx
    /\ Flush(db)

(* A request served start to end with no other request in between. *)
Commit(db) == Store(db) /\ UNCHANGED <<now, sessions, questVars, scoreVars>>

(* History of the update_nutrition_streak calls. *)
Observe(daily_score, day) ==
    LET threshold == IF IsSome(ns) THEN Val(ns).threshold
                     ELSE NutritionStreakDefault.threshold
    IN  qualifying_days' =
            IF /\ IsSome(qualifying_days)
               /\ daily_score >= threshold
               /\ \A d \in Val(qualifying_days) : d < day
            THEN Some(Val(qualifying_days) \cup {day})
            ELSE None

Init ==
    /\ now = 1
    /\ xp_points = 0
    /\ current_streak = 0
    /\ longest_streak = 0
    /\ last_active_date = None
    /\ xp_transactions = EmptyBag
    /\ user_achievements = EmptyBag
    /\ ns = None
    /\ food_log_count = 0
    /\ sessions = [p \in Procs |-> None]
    /\ qualifying_days = Some({})
    /\ daily_quests = EmptyBag
    /\ rng = [p \in Procs |-> 0]
    /\ quest_sessions = [p \in Procs |-> None]
    /\ quest_runs = EmptyBag
    /\ food_logs = EmptyBag
    /\ targets = None
    /\ summaries = EmptyBag
    /\ ret = [op |-> "init"]

Tick ==
    /\ now < MaxDay
    /\ now' = now + 1
    /\ ret' = [op |-> "tick"]
    /\ UNCHANGED <<userVars, sessions, qualifying_days, questVars, scoreVars>>

(* POST /api/gamification/xp *)
AwardXpEndpoint(amount, order) ==
    /\ BagCardinality(xp_transactions) < MaxTx
    /\ \E r \in {award_xp(DB, amount, "manual", now)} :
         \E c \in {check_achievements(r.db, order, now)} :
            /\ Commit(c.db)
            /\ ret' = [op |-> "award_xp", amount |-> amount, result |-> r.result]
            /\ UNCHANGED qualifying_days

(* POST /api/gamification/check-achievements *)
TriggerAchievementCheck(order) ==
    \E c \in {check_achievements(DB, order, now)} :
        /\ Commit(c.db)
        /\ ret' = [op |-> "check_achievements",
                   newly_unlocked |->
                       {c.newly_unlocked[i] : i \in DOMAIN c.newly_unlocked}]
        /\ UNCHANGED qualifying_days

(* POST /api/gamification/streak *)
UpdateStreak(order) ==
    \E r \in {update_streak(DB, now, order)} :
        /\ Commit(r.db)
        /\ ret' = [op |-> "update_streak", message |-> r.message]
        /\ UNCHANGED qualifying_days

(* GET /api/auth/me *)
GetProfile ==
    \E db \in {_auto_update_streak(DB, now)} :
        /\ Commit(db)
        /\ ret' = [op |-> "get_profile",
                   same_day |-> last_active_date = Some(now)]
        /\ UNCHANGED qualifying_days

(* update_nutrition_streak called on its own, for the day `day` *)
UpdateNutritionStreak(daily_score, day) ==
    \E r \in {update_nutrition_streak(DB, daily_score, day, now)} :
        /\ Commit(r.db)
        /\ Observe(daily_score, day)
        /\ ret' = [op |-> "update_nutrition_streak",
                   daily_score |-> daily_score,
                   day |-> day,
                   last_q |-> IF IsSome(ns) THEN Val(ns).last_qualifying_date
                              ELSE None,
                   qualifies |-> r.result.qualifies,
                   tier_xp |-> r.result.tier_xp]

(* POST /api/nutrition/logs: a food log dated `day` whose daily score *)
(* comes out as `daily_score`                                         *)
CreateLog(daily_score, day, order) ==
    /\ BagCardinality(xp_transactions) < MaxTx
    /\ \E a \in {award_xp([DB EXCEPT !.food_log_count = @ + 1],
                          50, "meal_log", now)} :
         \E s \in {update_nutrition_streak(a.db, daily_score, day, now)} :
            \E c \in {check_achievements(s.db, order, now)} :
               /\ Commit(c.db)
               /\ Observe(daily_score, day)
               /\ ret' = [op |-> "create_log",
                          day |-> day,
                          qualifies |-> s.result.qualifies,
                          tier_xp |-> s.result.tier_xp]

Next ==
    \/ Tick
    \/ \E amount \in Amounts, order \in Orders : AwardXpEndpoint(amount, order)
    \/ \E order \in Orders : TriggerAchievementCheck(order)
    \/ \E order \in Orders : UpdateStreak(order)
    \/ GetProfile
    \/ \E daily_score \in Scores, day \in DayArgs, order \in Orders :
           CreateLog(daily_score, day, order)

Spec == Init /\ [][Next]_vars

(* The nutrition streak function alone. *)
NextStreak ==
    \/ Tick
    \/ \E daily_score \in StreakScores, day \in DayArgs :
           UpdateNutritionStreak(daily_score, day)

SpecStreak == Init /\ [][NextStreak]_vars

(* The tier payout: calls for the current day, over the tier boundaries. *)
NextTiers ==
    \/ Tick
    \/ \E daily_score \in TierScores : UpdateNutritionStreak(daily_score, now)

SpecTiers == Init /\ [][NextTiers]_vars

(* Both streak trackers side by side. *)
NextTrackers ==
    \/ Tick
    \/ UpdateStreak([i \in AchIds |-> i])
    \/ GetProfile
    \/ \E daily_score \in TrackerScores, day \in DayArgs :
           UpdateNutritionStreak(daily_score, day)

SpecTrackers == Init /\ [][NextTrackers]_vars

(* The achievements table holds a row of an unknown criteria type next to *)
(* the catalog rows; it comes first or last in the pass.                  *)
LegacyOrders ==
    {[i \in AchIds |-> i] \o <<RowOf(UNKNOWN_KIND.name)>>,
     <<RowOf(UNKNOWN_KIND.name)>> \o [i \in AchIds |-> Len(ACHIEVEMENT_DEFS) + 1 - i]}

NextCatalog ==
    \/ Tick
    \/ GetProfile
    \/ \E amount \in Amounts, order \in LegacyOrders :
           AwardXpEndpoint(amount, order)
    \/ \E order \in LegacyOrders : TriggerAchievementCheck(order)

SpecCatalog == Init /\ [][NextCatalog]_vars

----------------------------------------------------------------------------
(* Two check_achievements passes in separate requests, each on its own    *)
(* database session: a pass reads the user's rows, then flushes what it   *)
(* added and commits.                                                     *)

PassRead(p) ==
    /\ sessions[p] = None
    /\ sessions' = [sessions EXCEPT ![p] = Some(DB)]
    /\ ret' = [op |-> "pass_read", session |-> p]
    /\ UNCHANGED <<now, userVars, qualifying_days, questVars, scoreVars>>

PassCommit(p, order) ==
    /\ IsSome(sessions[p])
    /\ LET snap == Val(sessions[p])
       IN  \E c \in {check_achievements(snap, order, now)} :
             /\ IF c.newly_unlocked = <<>>
                THEN UNCHANGED <<xp_points, current_streak, longest_streak,
                                 last_active_date, xp_transactions,
                                 user_achievements, ns, food_log_count>>
                ELSE Store([DB EXCEPT
                        !.user_achievements =
                            @ (+) (c.db.user_achievements (-) snap.user_achievements),
                        !.xp_transactions =
                            @ (+) (c.db.xp_transactions (-) snap.xp_transactions),
                        !.xp_points = c.db.xp_points])
             /\ ret' = [op |-> "pass_commit", session |-> p,
                        newly_unlocked |->
                            {c.newly_unlocked[i] : i \in DOMAIN c.newly_unlocked}]
    /\ sessions' = [sessions EXCEPT ![p] = None]
    /\ UNCHANGED <<now, qualifying_days, questVars, scoreVars>>

NextConc ==
    \/ Tick
    \/ GetProfile
    \/ \E p \in Procs : PassRead(p)
    \/ \E p \in Procs, order \in Orders : PassCommit(p, order)

SpecConc == Init /\ [][NextConc]_vars

----------------------------------------------------------------------------
(* Daily quests *)

Users == {1, 2}

(* The user whose XP, streaks and food logs the model follows. *)
current_user == 1

QuestTypes == {"general", "logging", "quality"}

(* The module-level generator of `random`, one per server process.  Its  *)
(* state is abstracted to a residue: seeding sets it from the seed       *)
(* string alone, every draw reads it and moves it on.                    *)
RngStates == 0..3

seed(user, today) == (2 * user + today) % 4

choice(pool, state) ==
    [value |-> pool[(state % Len(pool)) + 1], state |-> (state + 1) % 4]

general_pool == <<
    [title |-> "Healthify a Craving", target |-> 1, xp |-> 40],
    [title |-> "Save a Recipe", target |-> 1, xp |-> 25],
    [title |-> "Explore a Cuisine", target |-> 1, xp |-> 30] >>

logging_pool == <<
    [title |-> "Log Breakfast", target |-> 1, xp |-> 30],
    [title |-> "Log All 3 Meals", target |-> 3, xp |-> 60],
    [title |-> "Log a Snack", target |-> 1, xp |-> 20] >>

quality_pool(protein_target, fiber_target) == <<
    [title |-> "Hit " \o ToString(protein_target) \o "g Protein",
     target |-> protein_target, xp |-> 60],
    [title |-> "Eat " \o ToString(fiber_target) \o "g Fiber",
     target |-> fiber_target, xp |-> 50],
    [title |-> "Score Bronze+", target |-> 60, xp |-> 50],
    [title |-> "Score Silver+", target |-> 75, xp |-> 80] >>

DailyQuest(user, today, quest_type, pick) ==
    [user_id |-> user, date |-> today, quest_type |-> quest_type,
     title |-> pick.title, target_value |-> pick.target, current_value |-> 0,
     xp_reward |-> pick.xp, completed |-> FALSE, completed_at |-> None]

QuestId(q) == <<q.user_id, q.date, q.quest_type>>

(* What a response or a history entry shows of a set of quests. *)
Shown(quests) == {<<q.quest_type, q.title, q.target_value>> : q \in quests}

(* db.query(DailyQuest).filter(user_id == user, date == today).all() *)
QuestsOf(user, today) ==
    [q \in {x \in BagToSet(daily_quests) :
                x.user_id = user /\ x.date = today} |-> daily_quests[q]]

(* Variant: the selection draws from the generator as it finds it. *)
SelectQuests_unseeded(state, user, today) ==
    LET protein_target == IF IsSome(targets)
                          THEN Val(targets).protein_g_target \div 10
                          ELSE 130
        fiber_target == IF IsSome(targets)
                        THEN Val(targets).fiber_g_target \div 10
                        ELSE 30
        gen == choice(general_pool, state)
        log == choice(logging_pool, gen.state)
        qual == choice(quality_pool(protein_target, fiber_target), log.state)
    IN  [state |-> qual.state,
         quests |-> {DailyQuest(user, today, "general", gen.value),
                     DailyQuest(user, today, "logging", log.value),
                     DailyQuest(user, today, "quality", qual.value)}]

(* The selection of _generate_quests, run on a generator in state `state`: *)
(* the rows it builds and the state it leaves the generator in. The quest  *)
(* targets are whole grams of the nutrition targets, stored in tenths.      *)
SelectQuests(state, user, today) ==
    LET protein_target == IF IsSome(targets)
                          THEN Val(targets).protein_g_target \div 10
                          ELSE 130
        fiber_target == IF IsSome(targets)
                        THEN Val(targets).fiber_g_target \div 10
                        ELSE 30
        gen == choice(general_pool, seed(user, today))
        log == choice(logging_pool, gen.state)
        qual == choice(quality_pool(protein_target, fiber_target), log.state)
    IN  [state |-> qual.state,
         quests |-> {DailyQuest(user, today, "general", gen.value),
                     DailyQuest(user, today, "logging", log.value),
                     DailyQuest(user, today, "quality", qual.value)}]

(* The commit of new rows: uq_daily_quest_user_date_type rejects the whole *)
(* transaction when a row with one of the keys is already there.           *)
(* Variant: the table has no uniqueness constraint. *)
IntegrityError_never(rows) == FALSE

IntegrityError(rows) ==
    \E q \in rows : \E e \in BagToSet(daily_quests) : QuestId(e) = QuestId(q)

(* _generate_quests in process p; `ok` tells whether its commit went through. *)
_generate_quests(p, user, today) ==
    \E sel \in {SelectQuests(rng[p], user, today)} :
        /\ rng' = [rng EXCEPT ![p] = sel.state]
        /\ quest_runs' = Row(quest_runs, [user_id |-> user, date |-> today,
                                          quests |-> Shown(sel.quests)])
        /\ IF IntegrityError(sel.quests)
           THEN /\ daily_quests' = daily_quests
                /\ ret' = [op |-> "get_daily_quests", user_id |-> user,
                           date |-> today, status |-> "IntegrityError",
                           quests |-> {}]
           ELSE /\ daily_quests' = daily_quests (+) SetToBag(sel.quests)
                /\ ret' = [op |-> "get_daily_quests", user_id |-> user,
                           date |-> today, status |-> "ok",
                           quests |-> Shown(sel.quests)]

(* GET /api/gamification/daily-quests, served start to end by process p *)
GetDailyQuests(p, user) ==
    /\ IF QuestsOf(user, now) /= EmptyBag
       THEN /\ ret' = [op |-> "get_daily_quests", user_id |-> user,
                       date |-> now, status |-> "ok",
                       quests |-> Shown(BagToSet(QuestsOf(user, now)))]
            /\ UNCHANGED <<daily_quests, rng, quest_runs>>
       ELSE _generate_quests(p, user, now)
    /\ UNCHANGED <<now, userVars, sessions, qualifying_days, quest_sessions,
                   scoreVars>>

Min(a, b) == IF a <= b THEN a ELSE b

(* Variant: reaching the target pays, but the quest is not marked. *)
ProgressStep_unmarked(db, quest, amount, t) ==
    LET value == Min(quest.target_value, quest.current_value + amount)
        done == value >= quest.target_value
    IN  [quest |-> [quest EXCEPT !.current_value = value],
         db |-> IF done
                THEN award_xp(db, quest.xp_reward,
                              "quest:" \o quest.title, t).db
                ELSE db,
         xp_gained |-> IF done THEN quest.xp_reward ELSE 0]

(* The body of update_quest_progress on a quest that is not completed:  *)
(* the quest after it, the user's rows after it and the XP it reports.  *)
ProgressStep(db, quest, amount, t) ==
    LET value == Min(quest.target_value, quest.current_value + amount)
        done == value >= quest.target_value
    IN  [quest |-> [quest EXCEPT !.current_value = value,
                                 !.completed = IF done THEN TRUE ELSE @,
                                 !.completed_at = IF done THEN Some(t) ELSE @],
         db |-> IF done
                THEN award_xp(db, quest.xp_reward,
                              "quest:" \o quest.title, t).db
                ELSE db,
         xp_gained |-> IF done THEN quest.xp_reward ELSE 0]

(* POST /api/gamification/daily-quests/{quest_id}/progress *)
UpdateQuestProgress(quest_id, amount) ==
    LET found == {q \in BagToSet(daily_quests) :
                     QuestId(q) = quest_id /\ q.user_id = current_user}
    IN  /\ IF found = {}
           THEN /\ ret' = [op |-> "update_quest_progress",
                           quest_id |-> quest_id, error |-> "Quest not found"]
                /\ UNCHANGED <<userVars, daily_quests>>
           ELSE \E quest \in found :
                  IF quest.completed
                  THEN /\ ret' = [op |-> "update_quest_progress",
                                  quest_id |-> quest_id,
                                  message |-> "Already completed",
                                  xp_gained |-> 0]
                       /\ UNCHANGED <<userVars, daily_quests>>
                  ELSE \E r \in {ProgressStep(DB, quest, amount, now)} :
                         /\ r.quest.current_value >= -MaxQuestDebt
                         /\ \/ r.quest.current_value <= MaxPartial
                            \/ r.quest.completed
                         /\ Store(r.db)
                         /\ daily_quests' =
                                Row(daily_quests (-) SetToBag({quest}), r.quest)
                         /\ ret' = [op |-> "update_quest_progress",
                                    quest_id |-> quest_id,
                                    amount |-> amount,
                                    before |-> quest.current_value,
                                    current_value |-> r.quest.current_value,
                                    completed |-> r.quest.completed,
                                    xp_gained |-> r.xp_gained]
        /\ UNCHANGED <<now, sessions, qualifying_days, rng, quest_sessions,
                       quest_runs, scoreVars>>

(* Quest requests of one day, served one after another. *)
NextProgress ==
    \/ \E p \in Procs, user \in Users : GetDailyQuests(p, user)
    \/ \E user \in Users, quest_type \in QuestTypes, amount \in QuestAmounts :
           UpdateQuestProgress(<<user, now, quest_type>>, amount)

SpecProgress == Init /\ [][NextProgress]_vars

(* get_daily_quests in two processes: a request reads the day's quests,  *)
(* and when it has found none it generates and commits in a later step.  *)
QuestRead(p, user) ==
    /\ quest_sessions[p] = None
    /\ IF QuestsOf(user, now) /= EmptyBag
       THEN /\ ret' = [op |-> "get_daily_quests", user_id |-> user,
                       date |-> now, status |-> "ok",
                       quests |-> Shown(BagToSet(QuestsOf(user, now)))]
            /\ UNCHANGED quest_sessions
       ELSE /\ ret' = [op |-> "quest_read", user_id |-> user, date |-> now]
            /\ quest_sessions' =
                   [quest_sessions EXCEPT ![p] = Some([user_id |-> user,
                                                       today |-> now])]
    /\ UNCHANGED <<now, userVars, sessions, qualifying_days, daily_quests,
                   rng, quest_runs, scoreVars>>

QuestGenerate(p) ==
    /\ IsSome(quest_sessions[p])
    /\ _generate_quests(p, Val(quest_sessions[p]).user_id,
                        Val(quest_sessions[p]).today)
    /\ quest_sessions' = [quest_sessions EXCEPT ![p] = None]
    /\ UNCHANGED <<now, userVars, sessions, qualifying_days, scoreVars>>

(* Any other use of the module-level generator in process p (a quest      *)
(* generation for another user, a shuffle of the meal planner), or a      *)
(* restart of the process, leaves the generator in a state of its own.    *)
AmbientRandom(p) ==
    /\ \E state \in RngStates \ {rng[p]} : rng' = [rng EXCEPT ![p] = state]
    /\ ret' = [op |-> "random", process |-> p]
    /\ UNCHANGED <<now, userVars, sessions, qualifying_days, daily_quests,
                   quest_sessions, quest_runs, scoreVars>>

NextQuests ==
    \/ Tick
    \/ \E p \in Procs : QuestRead(p, current_user)
    \/ \E p \in Procs : QuestGenerate(p)
    \/ \E p \in Procs : AmbientRandom(p)

SpecQuests == Init /\ [][NextQuests]_vars

(* update_quest_progress in two processes, each request on its own        *)
(* session: it loads the user and the quest and returns at once when the  *)
(* quest is missing or completed; what it computes from the rows it has   *)
(* loaded is flushed and committed in a later step.                       *)
ProgressRead(p, quest_id) ==
    LET found == {q \in BagToSet(daily_quests) :
                     QuestId(q) = quest_id /\ q.user_id = current_user}
    IN  /\ sessions[p] = None
        /\ quest_sessions[p] = None
        /\ IF found = {}
           THEN /\ ret' = [op |-> "update_quest_progress",
                           quest_id |-> quest_id, error |-> "Quest not found"]
                /\ UNCHANGED <<sessions, quest_sessions>>
           ELSE \E quest \in found :
                  IF quest.completed
                  THEN /\ ret' = [op |-> "update_quest_progress",
                                  quest_id |-> quest_id,
                                  message |-> "Already completed",
                                  xp_gained |-> 0]
                       /\ UNCHANGED <<sessions, quest_sessions>>
                  ELSE /\ sessions' = [sessions EXCEPT ![p] = Some(DB)]
                       /\ quest_sessions' =
                              [quest_sessions EXCEPT ![p] = Some(quest)]
                       /\ ret' = [op |-> "progress_read", session |-> p,
                                  quest_id |-> quest_id]
        /\ UNCHANGED <<now, userVars, qualifying_days, daily_quests, rng,
                       quest_runs, scoreVars>>

(* The flush writes the columns the request has changed on the rows it    *)
(* loaded, whatever the store holds by then, and inserts the rows it      *)
(* added.                                                                 *)
ProgressCommit(p, amount) ==
    /\ IsSome(sessions[p])
    /\ IsSome(quest_sessions[p])
    /\ LET snap == Val(sessions[p])
           quest == Val(quest_sessions[p])
           stored == CHOOSE q \in BagToSet(daily_quests) :
                         QuestId(q) = QuestId(quest)
       IN  \E r \in {ProgressStep(snap, quest, amount, now)} :
             /\ r.quest.current_value >= -MaxQuestDebt
             /\ \/ r.quest.current_value <= MaxPartial
                \/ r.quest.completed
             /\ IF r.quest.completed
                THEN Store([DB EXCEPT
                        !.xp_points = r.db.xp_points,
                        !.xp_transactions =
                            @ (+) (r.db.xp_transactions (-) snap.xp_transactions)])
                ELSE UNCHANGED userVars
             /\ daily_quests' =
                    Row(daily_quests (-) SetToBag({stored}),
                        [k \in DOMAIN stored |->
                            IF r.quest[k] /= quest[k]
                            THEN r.quest[k] ELSE stored[k]])
             /\ ret' = [op |-> "update_quest_progress",
                        quest_id |-> QuestId(quest),
                        amount |-> amount,
                        before |-> quest.current_value,
                        current_value |-> r.quest.current_value,
                        completed |-> r.quest.completed,
                        xp_gained |-> r.xp_gained]
    /\ sessions' = [sessions EXCEPT ![p] = None]
    /\ quest_sessions' = [quest_sessions EXCEPT ![p] = None]
    /\ UNCHANGED <<now, qualifying_days, rng, quest_runs, scoreVars>>

NextProgressConc ==
    \/ \E p \in Procs : GetDailyQuests(p, current_user)
    \/ \E p \in Procs, quest_type \in QuestTypes :
           ProgressRead(p, <<current_user, now, quest_type>>)
    \/ \E p \in Procs, amount \in ProgressAmounts : ProgressCommit(p, amount)

SpecProgressConc == Init /\ [][NextProgressConc]_vars

----------------------------------------------------------------------------
(* Nutrition scoring: targets, food logs and the daily summary.           *)
(* Amounts, targets and scores are carried in tenths of their unit (a     *)
(* copper target of 0.9 mg is 9, a score of 60.0 is 600); a percentage is *)
(* carried as an exact fraction [n, d] in lowest terms with d > 0.        *)

Tenths(units) == 10 * units

Abs(x) == IF x < 0 THEN -x ELSE x

RECURSIVE GCD(_, _)
GCD(a, b) == IF b = 0 THEN a ELSE GCD(b, a % b)

Frac(n, d) ==
    LET s == IF d < 0 THEN -1 ELSE 1
        g == GCD(Abs(n), Abs(d))
    IN  [n |-> (s * n) \div g, d |-> (s * d) \div g]

FracAdd(a, b) == Frac(a.n * b.d + b.n * a.d, a.d * b.d)

FracScale(k, a) == Frac(k * a.n, a.d)

FracLeq(a, b) == a.n * b.d <= b.n * a.d

FracMin(a, b) == IF FracLeq(a, b) THEN a ELSE b

(* sum(values): the running total is carried from one value to the next *)
RECURSIVE FracSumFrom(_, _, _)
FracSumFrom(total, f, keys) ==
    IF total.d > 0 /\ keys /= {}
    THEN LET k == CHOOSE x \in keys : TRUE
         IN  FracSumFrom(FracAdd(total, f[k]), f, {x \in keys : x /= k})
    ELSE total

FracSum(f, keys) == FracSumFrom(Frac(0, 1), f, keys)

(* sum(values) / len(values) *)
Mean(f, keys) ==
    LET total == FracSum(f, keys)
    IN  Frac(total.n, total.d * Cardinality(keys))

(* round(x, 1), in tenths: the nearest tenth, a tie going to the even one *)
round1(x) ==
    LET n == 10 * x.n
        lo == n \div x.d
        rem == n - lo * x.d
    IN  IF 2 * rem < x.d THEN lo
        ELSE IF 2 * rem > x.d THEN lo + 1
        ELSE IF lo % 2 = 0 THEN lo ELSE lo + 1

ESSENTIAL_MICROS_DEFAULTS ==
    [vitamin_a_mcg |-> 9000, vitamin_c_mg |-> 900, vitamin_d_mcg |-> 200,
     vitamin_e_mg |-> 150, vitamin_k_mcg |-> 1200, thiamin_b1_mg |-> 12,
     riboflavin_b2_mg |-> 13, niacin_b3_mg |-> 160, vitamin_b6_mg |-> 17,
     folate_mcg |-> 4000, vitamin_b12_mcg |-> 24, choline_mg |-> 5500,
     calcium_mg |-> 13000, iron_mg |-> 180, magnesium_mg |-> 4200,
     phosphorus_mg |-> 12500, potassium_mg |-> 47000, sodium_mg |-> 23000,
     zinc_mg |-> 110, copper_mg |-> 9, manganese_mg |-> 23,
     selenium_mcg |-> 550, iodine_mcg |-> 1500, omega3_g |-> 16]

MACRO_KEYS == {"calories", "protein", "carbs", "fat", "fiber"}

ScoredMacros == {"protein", "carbs", "fat", "fiber"}

TargetFields ==
    {"calories_target", "protein_g_target", "carbs_g_target",
     "fat_g_target", "fiber_g_target"}

_default_targets ==
    [calories_target |-> Tenths(2200),
     protein_g_target |-> Tenths(130),
     carbs_g_target |-> Tenths(250),
     fat_g_target |-> Tenths(75),
     fiber_g_target |-> Tenths(30),
     micronutrient_targets |-> ESSENTIAL_MICROS_DEFAULTS]

(* The nutrition rows of the store that belong to the user. *)
NDB == [food_logs |-> food_logs, targets |-> targets, summaries |-> summaries]

_get_or_create_targets(db) ==
    IF IsSome(db.targets)
    THEN IF DOMAIN Val(db.targets).micronutrient_targets = {}
         THEN LET target == [Val(db.targets) EXCEPT
                                !.micronutrient_targets = ESSENTIAL_MICROS_DEFAULTS]
              IN  [db |-> [db EXCEPT !.targets = Some(target)], target |-> target]
         ELSE [db |-> db, target |-> Val(db.targets)]
    ELSE [db |-> [db EXCEPT !.targets = Some(_default_targets)],
          target |-> _default_targets]

Get(snap, k) == IF k \in DOMAIN snap THEN snap[k] ELSE 0

(* snap.get(k, 0) or snap.get(k + "_g", 0) or 0; calories has one spelling *)
MacroOf(snap, k) ==
    IF k = "calories" \/ Get(snap, k) /= 0 THEN Get(snap, k)
    ELSE Get(snap, k \o "_g")

RECURSIVE SumLogs(_, _, _)
SumLogs(logs, k, macro) ==
    IF BagToSet(logs) = {} THEN 0
    ELSE LET log == CHOOSE x \in BagToSet(logs) : TRUE
             rest == [x \in BagToSet(logs) \ {log} |-> logs[x]]
             v == IF macro THEN MacroOf(log.nutrition_snapshot, k)
                  ELSE Get(log.nutrition_snapshot, k)
         IN  v * logs[log] + SumLogs(rest, k, macro)

LogsOn(logs, day) ==
    [x \in {l \in BagToSet(logs) : l.date = day} |-> logs[x]]

(* (consumed / float(target or 1)) * 100 *)
Pct(consumed, target) ==
    Frac(100 * consumed, IF target = 0 THEN Tenths(1) ELSE target)

MacroTarget(target, k) ==
    IF k = "calories" THEN target.calories_target
    ELSE target[k \o "_g_target"]

Comparison(target, totals, micros) ==
    LET macro_part ==
            [k \in MACRO_KEYS |->
                [consumed |-> totals[k],
                 target |-> MacroTarget(target, k),
                 pct |-> Pct(totals[k], MacroTarget(target, k))]]
        micro_part ==
            [k \in DOMAIN target.micronutrient_targets |->
                [consumed |-> micros[k],
                 target |-> IF target.micronutrient_targets[k] = 0
                            THEN Tenths(1)
                            ELSE target.micronutrient_targets[k],
                 pct |-> Pct(micros[k], target.micronutrient_targets[k])]]
    IN  micro_part @@ macro_part

Capped(comparison) ==
    [k \in DOMAIN comparison |-> FracMin(Frac(100, 1), comparison[k].pct)]

(* Variant: calories take part in the macro score. *)
DailyScore_with_calories(comparison) ==
    LET capped == Capped(comparison)
        micro_keys == DOMAIN comparison \ MACRO_KEYS
        micro_score == IF micro_keys = {} THEN Frac(0, 1)
                       ELSE Mean(capped, micro_keys)
        macro_score == Mean(capped, MACRO_KEYS)
        weighted == FracAdd(FracScale(6, macro_score), FracScale(4, micro_score))
    IN  round1(Frac(weighted.n, weighted.d * 10))

DailyScore(comparison) ==
    LET capped == Capped(comparison)
        micro_keys == DOMAIN comparison \ MACRO_KEYS
        micro_score == IF micro_keys = {} THEN Frac(0, 1)
                       ELSE Mean(capped, micro_keys)
        macro_score == Mean(capped, ScoredMacros)
        weighted == FracAdd(FracScale(6, macro_score), FracScale(4, micro_score))
    IN  round1(Frac(weighted.n, weighted.d * 10))

SummariesOn(rows, day) == {s \in BagToSet(rows) : s.date = day}

DailyNutritionSummary(day, totals_json, comparison, daily_score) ==
    [date |-> day, totals_json |-> totals_json,
     comparison_json |-> comparison, daily_score |-> daily_score]

(* Variant: a summary row is added by every computation. *)
SaveSummary_insert_only(rows, day, totals_json, comparison, daily_score) ==
    Row(rows, DailyNutritionSummary(day, totals_json, comparison, daily_score))

SaveSummary(rows, day, totals_json, comparison, daily_score) ==
    LET new == DailyNutritionSummary(day, totals_json, comparison, daily_score)
    IN  IF SummariesOn(rows, day) = {} THEN Row(rows, new)
        ELSE LET summary == CHOOSE s \in SummariesOn(rows, day) : TRUE
             IN  Row(rows (-) SetToBag({summary}), new)

_compute_daily(db, day) ==
    LET t == _get_or_create_targets(db)
        logs == LogsOn(t.db.food_logs, day)
        totals == [k \in MACRO_KEYS |-> SumLogs(logs, k, TRUE)]
        micros == [k \in DOMAIN t.target.micronutrient_targets |->
                      SumLogs(logs, k, FALSE)]
        comparison == Comparison(t.target, totals, micros)
        daily_score == DailyScore(comparison)
    IN  [db |-> [t.db EXCEPT
                    !.summaries = SaveSummary(@, day, micros @@ totals,
                                              comparison, daily_score)],
         totals |-> totals,
         comparison |-> comparison,
         daily_score |-> daily_score]

FoodLog(day, nutrition_snapshot) ==
    [date |-> day, nutrition_snapshot |-> nutrition_snapshot]

(* The whole points of a score in tenths: a comparison with a whole-point *)
(* threshold (60, 75, 90) gives the same answer for both.                 *)
Points(score) == score \div 10

StoreNutrition(db) ==
    /\ food_logs' = db.food_logs
    /\ targets' = db.targets
    /\ summaries' = db.summaries

(* PUT /api/nutrition/targets: the fields present in the payload are set *)
UpdateTargets(payload) ==
    \E t \in {_get_or_create_targets(NDB)} :
        LET fields == [k \in DOMAIN t.target |->
                          IF k \in TargetFields /\ k \in DOMAIN payload
                          THEN payload[k] ELSE t.target[k]]
            merged == IF "micronutrient_targets" \in DOMAIN payload
                      THEN [fields EXCEPT !.micronutrient_targets =
                               payload.micronutrient_targets
                                   @@ ESSENTIAL_MICROS_DEFAULTS]
                      ELSE fields
        IN  /\ StoreNutrition([t.db EXCEPT !.targets = Some(merged)])
            /\ ret' = [op |-> "update_targets", targets |-> merged]
            /\ UNCHANGED <<now, userVars, sessions, qualifying_days, questVars>>

(* GET /api/nutrition/daily *)
GetDaily(day) ==
    \E r \in {_compute_daily(NDB, day)} :
        /\ StoreNutrition(r.db)
        /\ ret' = [op |-> "get_daily", day |-> day, totals |-> r.totals,
                   comparison |-> r.comparison, daily_score |-> r.daily_score]
        /\ UNCHANGED <<now, userVars, sessions, qualifying_days, questVars>>

(* POST /api/nutrition/logs with a manual entry of one serving: the log  *)
(* is stored, the day is scored, and the score goes to the streak and    *)
(* the achievements                                                      *)
(* Variant: the achievements are checked before the streak is updated. *)
create_log_check_first(nutrition, day, order) ==
    \E r \in {_compute_daily([NDB EXCEPT !.food_logs =
                                   Row(@, FoodLog(day, nutrition))], day)} :
     \E a \in {award_xp([DB EXCEPT !.food_log_count = @ + 1,
                                    !.summaries = r.db.summaries],
                        50, "meal_log", now)} :
      \E c \in {check_achievements(a.db, order, now)} :
       \E s \in {update_nutrition_streak(c.db, Points(r.daily_score), day, now)} :
            /\ Flush(s.db)
            /\ StoreNutrition(r.db)
            /\ Observe(Points(r.daily_score), day)
            /\ ret' = [op |-> "create_food_log", day |-> day,
                       totals |-> r.totals,
                       comparison |-> r.comparison,
                       daily_score |-> r.daily_score,
                       qualifies |-> s.result.qualifies,
                       tier_xp |-> s.result.tier_xp]
            /\ UNCHANGED <<now, sessions, questVars>>

create_log(nutrition, day, order) ==
    \E r \in {_compute_daily([NDB EXCEPT !.food_logs =
                                   Row(@, FoodLog(day, nutrition))], day)} :
     \E a \in {award_xp([DB EXCEPT !.food_log_count = @ + 1,
                                    !.summaries = r.db.summaries],
                        50, "meal_log", now)} :
      \E s \in {update_nutrition_streak(a.db, Points(r.daily_score), day, now)} :
       \E c \in {check_achievements(s.db, order, now)} :
            /\ Flush(c.db)
            /\ StoreNutrition(r.db)
            /\ Observe(Points(r.daily_score), day)
            /\ ret' = [op |-> "create_food_log", day |-> day,
                       totals |-> r.totals,
                       comparison |-> r.comparison,
                       daily_score |-> r.daily_score,
                       qualifies |-> s.result.qualifies,
                       tier_xp |-> s.result.tier_xp]
            /\ UNCHANGED <<now, sessions, questVars>>

(* create_log while the ledger and the food logs stay within the bounds *)
CreateFoodLog(nutrition, day, order) ==
    /\ BagCardinality(xp_transactions) < MaxTx
    /\ BagCardinality(food_logs) < MaxLogs
    /\ create_log(nutrition, day, order)
    /\ BagCardinality(xp_transactions') <= MaxTx
    /\ BagCardinality(TierRows(xp_transactions')) <= MaxTierTx

(* DELETE /api/nutrition/logs/{log_id} *)
DeleteLog(log) ==
    /\ log \in BagToSet(food_logs)
    /\ \E r \in {_compute_daily([NDB EXCEPT !.food_logs =
                                      @ (-) SetToBag({log})], log.date)} :
        /\ StoreNutrition(r.db)
        /\ food_log_count' = food_log_count - 1
        /\ ret' = [op |-> "delete_log", day |-> log.date, totals |-> r.totals,
                   comparison |-> r.comparison, daily_score |-> r.daily_score]
        /\ UNCHANGED <<now, xp_points, current_streak, longest_streak,
                       last_active_date, xp_transactions, user_achievements,
                       ns, sessions, qualifying_days, questVars>>

(* The scoring endpoints on one calendar day: food is logged for today, *)
(* the score is read for today and for the day after.                  *)
NextScore ==
    \/ \E payload \in TargetPayloads : UpdateTargets(payload)
    \/ \E day \in {now, now + 1} : GetDaily(day)
    \/ \E nutrition \in Nutrition :
           CreateFoodLog(nutrition, now, [i \in AchIds |-> i])
    \/ \E log \in BagToSet(food_logs) : DeleteLog(log)

SpecScore == Init /\ [][NextScore]_vars

(* The achievements table of the food-log events: the catalog rows and the *)
(* tier-day row, in insertion order or with the tier-day row first.        *)
EventOrders ==
    {[i \in AchIds |-> i] \o <<RowOf(FIRST_BRONZE_DAY.name)>>,
     <<RowOf(FIRST_BRONZE_DAY.name)>> \o
         [i \in AchIds |-> Len(ACHIEVEMENT_DEFS) + 1 - i]}

(* The full day and the snack of Nutrition; the day of the request and *)
(* the two days after it.                                               *)
EventNutrition == {n \in Nutrition : "calories" \in DOMAIN n}

EventDays == {now, now + 1, now + 2}

(* Food logged on one day for that day and the days after it: every    *)
(* submission runs the scoring, the streak and the achievements.        *)
NextEvent ==
    \/ GetDaily(now)
    \/ \E nutrition \in EventNutrition, day \in EventDays, order \in EventOrders :
           /\ BagCardinality(food_logs) < MaxEventLogs
           /\ create_log(nutrition, day, order)

SpecEvent == Init /\ [][NextEvent]_vars

----------------------------------------------------------------------------
(* The weekly criteria of check_achievements *)

(* The summaries dated week_ago = today - 7 or later *)
SinceWeekAgo(db, today) ==
    [s \in {x \in BagToSet(db.summaries) : x.date >= today - 7} |->
        db.summaries[s]]

(* float(comp.get(key, {}).get("pct", 0) or 0) *)
PctOf(comp, key) == IF key \in DOMAIN comp THEN comp[key].pct ELSE Frac(0, 1)

MasterMacros == {"protein", "carbs", "fat", "fiber"}

_check_weekly_nutrient(db, today, nutrient, days_required) ==
    LET rows == SinceWeekAgo(db, today)
        hits == BagCardinality(
                    [s \in {x \in BagToSet(rows) :
                               FracLeq(Frac(100, 1),
                                       PctOf(x.comparison_json, nutrient))} |->
                        rows[s]])
    IN  hits >= days_required

_check_macro_master(db, today, days_required) ==
    LET rows == SinceWeekAgo(db, today)
        all_good(comp) ==
            \A macro \in MasterMacros :
                /\ FracLeq(Frac(90, 1), PctOf(comp, macro))
                /\ FracLeq(PctOf(comp, macro), Frac(110, 1))
        perfect_days == BagCardinality(
                            [s \in {x \in BagToSet(rows) :
                                       all_good(x.comparison_json)} |->
                                rows[s]])
    IN  perfect_days >= days_required

WeekNutrients == {"protein", "iron_mg"}

WeekRequirements == {1, 2}

(* Dates a log is submitted for: a week ago, today, tomorrow. *)
WeekDays == {now - 7, now, now + 1}

(* The two weekly checks of a pass over the achievements, on the rows as *)
(* they are stored.                                                      *)
CheckWeekly(nutrient, days_required) ==
    /\ ret' = [op |-> "check_weekly", nutrient |-> nutrient,
               days_required |-> days_required,
               weekly_nutrient_hit |->
                   _check_weekly_nutrient(DB, now, nutrient, days_required),
               macro_master_week |->
                   _check_macro_master(DB, now, days_required)]
    /\ UNCHANGED <<now, userVars, sessions, qualifying_days, questVars,
                   scoreVars>>

NextWeek ==
    \/ GetDaily(now)
    \/ \E nutrition \in Nutrition, day \in WeekDays :
           /\ BagCardinality(food_logs) < MaxLogs
           /\ create_log(nutrition, day, [i \in AchIds |-> i])
    \/ \E nutrient \in WeekNutrients, days_required \in WeekRequirements :
           CheckWeekly(nutrient, days_required)

SpecWeek == Init /\ [][NextWeek]_vars

----------------------------------------------------------------------------
(* Properties *)

HasRow(reason) == \E tx \in BagToSet(xp_transactions) : tx.reason = reason

\* C1: after any sequence of check_achievements passes run one after
\* another, mixed with the other requests, every achievement has at most one
\* UserAchievement row, and a step never adds or removes a row of an
\* achievement the user has already unlocked.
C1_AtMostOneUnlock ==
    /\ [](\A a \in AchNames : CopiesIn(a, user_achievements) <= 1)
    /\ [][\A a \in AchNames :
            (CopiesIn(a, user_achievements) >= 1) =>
                (CopiesIn(a, user_achievements') =
                     CopiesIn(a, user_achievements))]_vars

\* A pass has run with "First Steps" unlocked and its criterion (level 2)
\* still met, and has unlocked nothing.
C1_Witness ==
    /\ ret.op = "check_achievements"
    /\ ret.newly_unlocked = {}
    /\ CopiesIn("First Steps", user_achievements) = 1
    /\ calculate_level(xp_points) >= 2

\* C2: when two check_achievements passes of the same user both read the
\* unlocked set before either commits, the store still ends with at most one
\* UserAchievement row per achievement (the second insert is rejected and
\* the losing pass drops the achievement from its list).
C2_ConcurrentUnlockOnce ==
    \A a \in BagToSet(user_achievements) : user_achievements[a] = 1

\* C3: from 0 XP and an empty ledger, after any sequence of requests served
\* one after another, the cached xp_points equals the sum of the amounts of
\* the user's XPTransaction rows.
C3_CachedXpEqualsLedgerSum == xp_points = SumAmounts(xp_transactions)

\* A food log has paid the meal bonus, a Gold tier bonus and the "First Log"
\* achievement reward: three ledger rows, 300 XP.
C3_Witness ==
    /\ ret.op = "create_log"
    /\ ret.tier_xp = 200
    /\ HasRow("meal_log")
    /\ HasRow("nutrition_tier:Gold")
    /\ HasRow("achievement:First Log")
    /\ xp_points = 300

\* C4: no request ever decreases xp_points or the level
\* floor(xp_points / 1000) + 1, whatever integer amount POST /xp is given.
C4_XpNeverDecreases ==
    [][/\ xp_points' >= xp_points
       /\ calculate_level(xp_points') >= calculate_level(xp_points)]_vars

\* C5: award_xp returns total_xp = xp_points before + amount and
\* xp_gained = amount; new_level and level_title are populated exactly when
\* floor(total_xp / 1000) + 1 is strictly greater than the level before the
\* award, and are both none otherwise.
C5_AwardXpResult ==
    [][(ret'.op = "award_xp") =>
          (LET r == ret'.result
               total == xp_points + ret'.amount
               before == calculate_level(xp_points)
               after == calculate_level(total)
           IN  /\ r.xp_gained = ret'.amount
               /\ r.total_xp = total
               /\ r.new_level = (IF after > before THEN Some(after) ELSE None)
               /\ r.level_title =
                      (IF after > before THEN Some(level_title(after))
                       ELSE None))]_vars

\* 950 XP + 100 XP: total_xp 1050, new_level 2 with its title.
C5_Witness ==
    /\ ret.op = "award_xp"
    /\ ret.amount = 100
    /\ ret.result.total_xp = 1050
    /\ ret.result.new_level = Some(2)
    /\ ret.result.level_title = Some("Kitchen Explorer")

NsRow == IF IsSome(ns) THEN Val(ns) ELSE NutritionStreakDefault

Last(S) == CHOOSE d \in S : \A e \in S : e <= d

(* Length of the maximal run of consecutive days of S that ends at Last(S). *)
RunLength(S) == Cardinality({d \in S : \A e \in d..Last(S) : e \in S})

\* C6: while update_nutrition_streak has only been called with qualifying
\* scores for strictly increasing days, current_streak is the length of the
\* maximal run of consecutive days ending at the last one; a qualifying call
\* for the day right after last_qualifying_date adds exactly 1, one after a
\* longer gap or with no prior date sets current_streak to 1.
C6_StreakContinuity ==
    /\ [](IsSome(qualifying_days) /\ Val(qualifying_days) /= {} =>
             /\ IsSome(ns)
             /\ Val(ns).current_streak = RunLength(Val(qualifying_days)))
    /\ [][(/\ ret'.op = "update_nutrition_streak"
            /\ ret'.qualifies
            /\ (ret'.last_q = None \/ Val(ret'.last_q) < ret'.day))
           => (Val(ns').current_streak =
                 IF IsSome(ret'.last_q) /\ ret'.day - Val(ret'.last_q) = 1
                 THEN NsRow.current_streak + 1 ELSE 1)]_vars

\* Qualifying calls for days 1, 2 and 3 in that order: a streak of 3.
C6_Witness ==
    /\ qualifying_days = Some({1, 2, 3})
    /\ ret.op = "update_nutrition_streak"
    /\ Val(ns).current_streak = 3

\* C7: a further call on the same day changes nothing: a qualifying
\* update_nutrition_streak for the day that is already last_qualifying_date
\* leaves the NutritionStreak row as it was, and POST /streak or GET /me on
\* the day that is already last_active_date leaves current_streak,
\* longest_streak and last_active_date as they were.
C7_SameDayReentrant ==
    [][/\ ((/\ ret'.op = "update_nutrition_streak"
             /\ ret'.qualifies
             /\ ret'.last_q = Some(ret'.day))
            => (ns' = ns))
       /\ ((/\ ret'.op \in {"update_streak", "get_profile"}
             /\ last_active_date = Some(now))
            => (/\ current_streak' = current_streak
                /\ longest_streak' = longest_streak
                /\ last_active_date' = last_active_date))]_vars

\* A second qualifying call for the day of a streak of 2.
C7_Witness ==
    /\ ret.op = "update_nutrition_streak"
    /\ ret.qualifies
    /\ ret.last_q = Some(ret.day)
    /\ Val(ns).current_streak = 2

\* C8: a non-qualifying update_nutrition_streak call sets current_streak to
\* 0 exactly when last_qualifying_date exists, is not the day of the call
\* and is more than one day before it, and leaves it alone otherwise;
\* longest_streak, last_qualifying_date, xp_points and the ledger stay as
\* they were.
C8_NonQualifyingFrame ==
    [][(ret'.op = "update_nutrition_streak" /\ ~ret'.qualifies) =>
          (LET last_q == NsRow.last_qualifying_date
               today == ret'.day
               reset == /\ IsSome(last_q)
                        /\ Val(last_q) /= today
                        /\ today - Val(last_q) > 1
           IN  /\ IsSome(ns')
               /\ Val(ns').current_streak =
                      (IF reset THEN 0 ELSE NsRow.current_streak)
               /\ Val(ns').longest_streak = NsRow.longest_streak
               /\ Val(ns').last_qualifying_date = last_q
               /\ xp_points' = xp_points
               /\ xp_transactions' = xp_transactions)]_vars

\* A miss two days or more after the last qualifying day has reset a streak.
C8_Witness ==
    /\ ret.op = "update_nutrition_streak"
    /\ ~ret.qualifies
    /\ IsSome(ret.last_q)
    /\ ret.day - Val(ret.last_q) > 1
    /\ Val(ns).current_streak = 0
    /\ Val(ns).longest_streak >= 1

\* C9: for both trackers current_streak >= 0 and longest_streak >=
\* current_streak in every state, and every step leaves longest_streak at
\* the larger of its old value and the new current_streak: longest_streak
\* is the maximum current_streak has ever held.
C9_LongestIsMaxEver ==
    /\ [](/\ current_streak >= 0
          /\ longest_streak >= current_streak
          /\ NsRow.current_streak >= 0
          /\ NsRow.longest_streak >= NsRow.current_streak)
    /\ [][/\ longest_streak' = Max(longest_streak, current_streak')
           /\ (IsSome(ns') =>
                 (Val(ns').longest_streak =
                     Max(NsRow.longest_streak, Val(ns').current_streak)))]_vars

\* The activity streak stands at its longest, 3, and the nutrition streak
\* has fallen to 0 below its longest.
C9_Witness ==
    /\ current_streak = 3
    /\ longest_streak = 3
    /\ IsSome(ns)
    /\ Val(ns).current_streak = 0
    /\ Val(ns).longest_streak >= 1

TierRowsOn(d) ==
    [tx \in {x \in BagToSet(xp_transactions) :
                x.reason \in TierReasons /\ x.created_at = d}
        |-> xp_transactions[tx]]

\* C10: whatever days update_nutrition_streak is called for, the ledger
\* holds at most one nutrition_tier row per day, and a qualifying call for
\* the day whose bonus the call before it has paid awards tier_xp 0.
C10_OneTierBonusPerDay ==
    /\ [](\A d \in 1..MaxDay : BagCardinality(TierRowsOn(d)) <= 1)
    /\ [][(/\ ret.op = "update_nutrition_streak"
            /\ ret.tier_xp > 0
            /\ ret'.op = "update_nutrition_streak"
            /\ ret'.qualifies
            /\ ret'.day = ret.day)
           => (ret'.tier_xp = 0)]_vars

(* The tier bonus the score calls for: <<amount, reason>>, or <<>> below *)
(* the threshold.                                                        *)
TierBonusFor(score) ==
    IF score >= 90 THEN <<200, "nutrition_tier:Gold">>
    ELSE IF score >= 75 THEN <<100, "nutrition_tier:Silver">>
    ELSE IF score >= 60 THEN <<50, "nutrition_tier:Bronze">>
    ELSE <<>>

\* C11: the tier payout is a function of the score: a qualifying call made
\* when no nutrition_tier row has been written since the start of its day
\* awards 200 XP as Gold from 90, 100 XP as Silver from 75 to below 90 and
\* 50 XP as Bronze from 60 to below 75, in one ledger row of that amount and
\* reason; a call whose score does not qualify awards nothing.
C11_TierByScore ==
    [][(ret'.op = "update_nutrition_streak") =>
          (LET bonus == TierBonusFor(ret'.daily_score)
           IN  IF bonus = <<>>
               THEN /\ ~ret'.qualifies
                    /\ ret'.tier_xp = 0
                    /\ xp_points' = xp_points
                    /\ xp_transactions' = xp_transactions
               ELSE /\ ret'.qualifies
                    /\ (~HasTierSince(DB, ret'.day) =>
                          /\ ret'.tier_xp = bonus[1]
                          /\ xp_points' = xp_points + bonus[1]
                          /\ xp_transactions' =
                                Row(xp_transactions,
                                    XPTransaction(bonus[2], bonus[1], now))))]_vars

\* The first qualifying call of the day, with a score of 75, has paid the
\* Silver bonus.
C11_Witness ==
    /\ ret.op = "update_nutrition_streak"
    /\ ret.daily_score = 75
    /\ ret.day = now
    /\ ret.tier_xp = 100
    /\ xp_transactions = SetToBag({XPTransaction("nutrition_tier:Silver", 100, now)})

(* The quest with the id of q after the step, when it is still there. *)
Successors(q) == {x \in BagToSet(daily_quests') : QuestId(x) = QuestId(q)}

QuestRows(title) ==
    [tx \in {x \in BagToSet(xp_transactions) : x.reason = "quest:" \o title}
        |-> xp_transactions[tx]]

\* C12: whatever amounts update_quest_progress is called with, a quest's
\* current_value never exceeds its target_value and never goes down from one
\* call to the next.
C12_ProgressMonotoneCapped ==
    /\ [](\A q \in BagToSet(daily_quests) : q.current_value <= q.target_value)
    /\ [][\A q \in BagToSet(daily_quests) :
            \A x \in Successors(q) : x.current_value >= q.current_value]_vars

\* C13: the call that brings a quest to its target sets completed, stamps
\* completed_at and writes exactly one quest:<title> ledger row of
\* xp_reward; completed never goes back to false; a call on a completed
\* quest changes nothing and reports xp_gained 0.
C13_CompletionOneShot ==
    /\ [](\A q \in BagToSet(QuestsOf(current_user, now)) :
             /\ q.completed => q.current_value = q.target_value
             /\ q.completed <=> IsSome(q.completed_at)
             /\ BagCardinality(QuestRows(q.title)) =
                    (IF q.completed THEN 1 ELSE 0))
    /\ [][(ret'.op = "update_quest_progress") =>
            (\A q \in BagToSet(daily_quests) :
               /\ q.completed => q \in BagToSet(daily_quests')
               /\ (q.completed /\ ret'.quest_id = QuestId(q)) =>
                     (/\ ret'.xp_gained = 0
                      /\ daily_quests' = daily_quests
                      /\ xp_points' = xp_points
                      /\ xp_transactions' = xp_transactions)
               /\ \A x \in Successors(q) :
                     (x /= q /\ x.current_value >= x.target_value) =>
                        x.completed
               /\ \A x \in Successors(q) :
                     (~q.completed /\ x.completed) =>
                        (/\ ret'.quest_id = QuestId(q)
                         /\ x.current_value = x.target_value
                         /\ x.completed_at = Some(now)
                         /\ ret'.xp_gained = q.xp_reward
                         /\ xp_points' = xp_points + q.xp_reward
                         /\ xp_transactions' =
                               Row(xp_transactions,
                                   XPTransaction("quest:" \o q.title,
                                                 q.xp_reward, now))))]_vars

\* A call on the completed "Eat 30g Fiber" quest has reported "Already
\* completed" with no XP; the ledger holds its one reward row.
C13_Witness ==
    /\ ret.op = "update_quest_progress"
    /\ "message" \in DOMAIN ret
    /\ ret.xp_gained = 0
    /\ \E q \in BagToSet(daily_quests) :
          /\ QuestId(q) = ret.quest_id
          /\ q.completed
          /\ q.title = "Eat 30g Fiber"
          /\ q.current_value = 30
          /\ xp_points = q.xp_reward
          /\ BagCardinality(QuestRows(q.title)) = 1

\* C14: the DailyQuest rows of a (user, date) are none or exactly three,
\* one of each quest_type; once a (user, date) has rows, no get_daily_quests
\* call adds to them or alters them.
C14_ThreeQuestsPerDay ==
    /\ [](\A user \in Users, d \in 1..MaxDay :
             \/ QuestsOf(user, d) = EmptyBag
             \/ /\ BagCardinality(QuestsOf(user, d)) = 3
                /\ {q.quest_type : q \in BagToSet(QuestsOf(user, d))} =
                       QuestTypes)
    /\ [][\A user \in Users, d \in 1..MaxDay :
            (QuestsOf(user, d) /= EmptyBag) =>
                (QuestsOf(user, d)' = QuestsOf(user, d))]_vars

\* A generation that started when the day had no quests has tried to commit
\* after another one: the day still has its three rows.
C14_Witness ==
    /\ ret.op = "get_daily_quests"
    /\ ret.status = "IntegrityError"
    /\ BagCardinality(QuestsOf(ret.user_id, ret.date)) = 3
    /\ BagCardinality(daily_quests) = 6

RunsOf(user, d) ==
    [r \in {x \in BagToSet(quest_runs) : x.user_id = user /\ x.date = d}
        |-> quest_runs[r]]

\* C15: every run of the quest selection for one (user, date) chooses the
\* same three quests, titles and targets included, whatever state the
\* generator of its process was in; and every get_daily_quests response
\* for that (user, date) shows those three quests.
C15_DeterministicQuests ==
    /\ \A user \in Users, d \in 1..MaxDay :
          Cardinality(BagToSet(RunsOf(user, d))) <= 1
    /\ (ret.op = "get_daily_quests" /\ ret.status = "ok") =>
          \A r \in BagToSet(RunsOf(ret.user_id, ret.date)) :
              r.quests = ret.quests

\* The selection has run twice for one (user, date), in two processes whose
\* generators were in different states just before, and a later request is
\* answered with the stored quests.
C15_Witness ==
    /\ ret.op = "get_daily_quests"
    /\ ret.status = "ok"
    /\ BagCardinality(RunsOf(ret.user_id, ret.date)) = 2
    /\ rng[1] /= rng[2]

\* C16: quest generation leaves the module-level random generator of its
\* process in the state it found it in.
C16_GeneratorUntouched ==
    [][(ret'.op = "get_daily_quests") => (rng' = rng)]_vars

\* C17: when two get_daily_quests requests have both found no quests for
\* the day, both are answered without an error with the same three quests,
\* and exactly three rows exist afterwards.
C17_LoserRereads ==
    (ret.op = "get_daily_quests") =>
        /\ ret.status = "ok"
        /\ ret.quests = Shown(BagToSet(QuestsOf(ret.user_id, ret.date)))
        /\ BagCardinality(QuestsOf(ret.user_id, ret.date)) = 3

----------------------------------------------------------------------------
(* Scoring claims *)

(* The last request scored a day: its response carries the comparison. *)
Scored == ret.op \in {"get_daily", "create_food_log", "delete_log"}

Hundred == Frac(100, 1)

MicroKeys == DOMAIN Val(targets).micronutrient_targets

\* C18: the daily score is round(0.6 * macro_score + 0.4 * micro_score, 1),
\* macro_score being the mean of min(100, pct) over protein, carbs, fat and
\* fiber only and micro_score the mean of min(100, pct) over the
\* micronutrient targets; with the four macros at 100% and no micronutrient
\* intake the score is 60.0.
C18_DailyScoreFormula ==
    Scored =>
        LET capped == [k \in DOMAIN ret.comparison |->
                          FracMin(Hundred, ret.comparison[k].pct)]
            macro_sum == FracAdd(FracAdd(capped["protein"], capped["carbs"]),
                                 FracAdd(capped["fat"], capped["fiber"]))
            macro_score == Frac(macro_sum.n, 4 * macro_sum.d)
            micro_score == Mean(capped, MicroKeys)
            weighted == FracAdd(Frac(6 * macro_score.n, 10 * macro_score.d),
                                Frac(4 * micro_score.n, 10 * micro_score.d))
        IN  /\ ret.daily_score = round1(weighted)
            /\ (/\ \A k \in ScoredMacros : ret.comparison[k].pct = Hundred
                /\ \A k \in MicroKeys : ret.comparison[k].consumed = 0)
               => (ret.daily_score = 600)

\* A food log brought protein, carbs, fat and fiber to exactly 100% of the
\* default targets with no micronutrient intake: the day scores 60.0.
C18_Witness ==
    /\ ret.op = "create_food_log"
    /\ \A k \in ScoredMacros : ret.comparison[k].pct = Hundred
    /\ ret.comparison["protein"].consumed = Tenths(130)
    /\ \A k \in MicroKeys : ret.comparison[k].consumed = 0
    /\ ret.daily_score = 600

(* The target configured for a nutrient of the comparison. *)
ConfiguredTarget(k) ==
    IF k \in MACRO_KEYS THEN MacroTarget(Val(targets), k)
    ELSE Val(targets).micronutrient_targets[k]

\* C19: for each of the 5 macros and each configured micronutrient, the
\* comparison pct is 100 * consumed / max(target, 1): a zero target and a
\* positive target below 1 (the default copper target 0.9) both divide as 1
C19_PctOverMaxTargetOne ==
    Scored =>
        \A k \in DOMAIN ret.comparison :
            ret.comparison[k].pct =
                Frac(100 * ret.comparison[k].consumed,
                     Max(ConfiguredTarget(k), Tenths(1)))

(* The stored summary rows of a day. *)
StoredOn(rows, day) == [x \in SummariesOn(rows, day) |-> rows[x]]

\* C20: two _compute_daily calls for the same day with the same food logs
\* and targets return the same totals, comparison and score, and each leaves
\* exactly one DailyNutritionSummary row for the day, holding after the
\* second call what it held after the first; every scoring request leaves
\* exactly one row for its day, holding what it returned.
C20_ScoringIdempotent ==
    /\ \A day \in {now, now + 1} :
        LET first == _compute_daily(NDB, day)
            second == _compute_daily(first.db, day)
        IN  /\ second.totals = first.totals
            /\ second.comparison = first.comparison
            /\ second.daily_score = first.daily_score
            /\ BagCardinality(StoredOn(first.db.summaries, day)) = 1
            /\ BagCardinality(StoredOn(second.db.summaries, day)) = 1
            /\ StoredOn(second.db.summaries, day) =
                   StoredOn(first.db.summaries, day)
            /\ second.db = first.db
    /\ Scored =>
        /\ BagCardinality(StoredOn(summaries, ret.day)) = 1
        /\ \A s \in SummariesOn(summaries, ret.day) :
            /\ s.comparison_json = ret.comparison
            /\ s.daily_score = ret.daily_score
            /\ \A k \in MACRO_KEYS : s.totals_json[k] = ret.totals[k]

\* The day was scored when its food was logged and is scored again by a
\* GET /daily with the log still there: one summary row, a positive score.
C20_Witness ==
    /\ ret.op = "get_daily"
    /\ ret.day = now
    /\ BagCardinality(LogsOn(food_logs, now)) > 0
    /\ ret.daily_score > 0
    /\ BagCardinality(StoredOn(summaries, now)) = 1

----------------------------------------------------------------------------
(* Concurrency, ordering and consistency claims *)

(* No request is between its read and its commit. *)
Quiescent == \A p \in Procs : sessions[p] = None

\* C25: when two XP-granting requests of one user overlap, each reading
\* xp_points before the other commits, no award is lost: once both have
\* committed, xp_points equals the sum of the user's XPTransaction amounts.
C25_NoLostAward == Quiescent => (xp_points = SumAmounts(xp_transactions))

(* The daily_streak rows written on day d. *)
StreakXpOn(d) ==
    [tx \in {x \in BagToSet(xp_transactions) :
                x.reason = "daily_streak" /\ x.created_at = d} |->
        xp_transactions[tx]]

\* C26: on a day on which the activity streak was advanced (last_active_date
\* is that day), exactly one daily_streak transaction of 100 XP is recorded
\* for the day, whichever of GET /me and POST /streak ran first.
C26_OneStreakXpPerActiveDay ==
    IsSome(last_active_date) =>
        /\ BagCardinality(StreakXpOn(Val(last_active_date))) = 1
        /\ \A tx \in BagToSet(StreakXpOn(Val(last_active_date))) :
               tx.amount = 100

\* C27: whatever day arguments update_nutrition_streak is called with,
\* last_qualifying_date never moves to an earlier date, and a qualifying
\* call for a day before last_qualifying_date leaves current_streak as it was
C27_LastQualifyingNeverEarlier ==
    [][(ret'.op = "update_nutrition_streak" /\ IsSome(ret'.last_q)) =>
        (/\ IsSome(Val(ns').last_qualifying_date)
         /\ Val(Val(ns').last_qualifying_date) >= Val(ret'.last_q)
         /\ (ret'.qualifies /\ ret'.day < Val(ret'.last_q)) =>
                (Val(ns').current_streak = NsRow.current_streak))]_vars

(* The last request ran a check_achievements pass to its end. *)
PassDone ==
    \/ ret.op \in {"check_achievements", "award_xp", "create_log"}
    \/ ret.op = "update_streak" /\ ret.message = "Streak updated"

\* C28: when a check_achievements pass returns, no achievement is left
\* locked whose criterion the committed state satisfies, whatever the order
\* in which the catalog was iterated.
C28_PassReachesFixpoint ==
    PassDone =>
        \A i \in AchIds :
            (CopiesIn(ACHIEVEMENT_DEFS[i].name, user_achievements) = 0) =>
                ~CriterionMet(DB, ACHIEVEMENT_DEFS[i], NsRow.current_streak)

(* The achievement: transactions of an achievement, with its reward. *)
RewardRows(ach) ==
    [tx \in {x \in BagToSet(xp_transactions) :
                x.reason = "achievement:" \o ach.name} |->
        xp_transactions[tx]]

KnownRows(order) ==
    SelectSeq(order, LAMBDA i : Achievements[i].name /= UNKNOWN_KIND.name)

\* C24: an achievement of an unknown criteria type is never satisfied: no
\* unlock record and no transaction is ever written for it, and a pass over
\* a table that contains it stores and returns what the pass over the
\* other rows alone stores and returns.
C24_UnknownKindSkipped ==
    /\ CopiesIn(UNKNOWN_KIND.name, user_achievements) = 0
    /\ BagCardinality(RewardRows(UNKNOWN_KIND)) = 0
    /\ \A order \in LegacyOrders :
           check_achievements(DB, order, now) =
               check_achievements(DB, KnownRows(order), now)

\* A pass over the table with the unknown row has unlocked an achievement
\* of a known type and left the unknown one locked.
C24_Witness ==
    /\ ret.op = "check_achievements"
    /\ "Streak Starter" \in ret.newly_unlocked
    /\ CopiesIn(UNKNOWN_KIND.name, user_achievements) = 0

----------------------------------------------------------------------------
(* Two progress requests on one quest *)

(* The XP of the quests of today that are marked completed. *)
CompletedReward ==
    SumAmounts(SetToBag({[quest_id |-> QuestId(q), amount |-> q.xp_reward] :
        q \in {x \in BagToSet(QuestsOf(current_user, now)) : x.completed}}))

\* C29: when update_quest_progress requests for the same incomplete quest
\* overlap and each brings current_value to target_value, the quest ends
\* completed with exactly one XP transaction "quest:<title>" recorded for it,
\* and xp_points has grown by its xp_reward exactly once.
C29_ConcurrentCompletionOnce ==
    /\ \A q \in BagToSet(QuestsOf(current_user, now)) :
          BagCardinality(QuestRows(q.title)) = IF q.completed THEN 1 ELSE 0
    /\ Quiescent => (xp_points = CompletedReward)

----------------------------------------------------------------------------
(* Nutrition streak against the stored scores *)

\* C30: after any sequence of create_log, delete_log and get_daily requests,
\* whenever the NutritionStreak row has current_streak > 0 and
\* last_qualifying_date = d, the stored DailyNutritionSummary of day d has a
\* daily_score of at least the threshold.
C30_StreakConsistentWithScores ==
    (/\ IsSome(ns)
     /\ Val(ns).current_streak > 0
     /\ IsSome(Val(ns).last_qualifying_date)) =>
        \E s \in SummariesOn(summaries, Val(Val(ns).last_qualifying_date)) :
            s.daily_score >= 10 * Val(ns).threshold

----------------------------------------------------------------------------
(* The stages of one food-log submission *)

(* The rows of the achievements table that look at the nutrition streak *)
(* or at the tier days.                                                 *)
NutritionRows ==
    {i \in DOMAIN Achievements :
        Achievements[i].type \in {"nutrition_streak", "bronze_days",
                                  "silver_days", "gold_days"}}

\* C21: within one create_log the day is scored first, then the streak is
\* updated, then the achievements are checked: the score returned and
\* stored is the one over the day's logs with the new log among them,
\* update_nutrition_streak is run on that score, and every nutrition_streak
\* and tier-day achievement still locked before the request is unlocked by
\* it exactly when the streak and the summaries the request leaves meet its
\* criterion.
C21_StagesInOrder ==
    [][(ret'.op = "create_food_log") =>
        (LET day == ret'.day
             row0 == IF IsSome(ns) THEN Val(ns) ELSE NutritionStreakDefault
         IN  /\ BagCardinality(LogsOn(food_logs', day)) =
                    BagCardinality(LogsOn(food_logs, day)) + 1
             /\ ret'.daily_score = _compute_daily(NDB', day).daily_score
             /\ \A s \in SummariesOn(summaries', day) :
                    s.daily_score = ret'.daily_score
             /\ SummariesOn(summaries', day) /= {}
             /\ ret'.qualifies =
                    (Points(ret'.daily_score) >= row0.threshold)
             /\ ns' = Some(StreakStep(row0, Points(ret'.daily_score), day))
             /\ \A i \in NutritionRows :
                    (Achievements[i].name \notin BagToSet(user_achievements)) =>
                        ((Achievements[i].name \in BagToSet(user_achievements'))
                            <=> CriterionMet(DB', Achievements[i],
                                             Val(ns').current_streak)))]_vars

(* The third qualifying day in a row has just been logged: the streak has *)
(* reached three and both nutrition achievements are unlocked.            *)
C21_Witness ==
    /\ ret.op = "create_food_log"
    /\ ret.qualifies
    /\ BagCardinality(food_logs) = 3
    /\ IsSome(ns)
    /\ Val(ns).current_streak = 3
    /\ Val(ns).last_qualifying_date = Some(ret.day)
    /\ "Bronze Eater" \in BagToSet(user_achievements)
    /\ "First Bronze Day" \in BagToSet(user_achievements)

----------------------------------------------------------------------------
(* The window of the weekly criteria *)

MacrosWithin(comp) ==
    \A macro \in MasterMacros :
        /\ FracLeq(Frac(90, 1), PctOf(comp, macro))
        /\ FracLeq(PctOf(comp, macro), Frac(110, 1))

(* The days of `days` whose stored summary has the nutrient at 100 % or *)
(* more, and those whose stored summary has the four macros within 10 %. *)
HitDays(days, nutrient) ==
    Cardinality({d \in days : \E s \in SummariesOn(summaries, d) :
        FracLeq(Frac(100, 1), PctOf(s.comparison_json, nutrient))})

PerfectDays(days) ==
    Cardinality({d \in days : \E s \in SummariesOn(summaries, d) :
        MacrosWithin(s.comparison_json)})

(* The last 7 calendar days: the seven that end today, or the seven *)
(* before today.                                                    *)
Last7 == {(now - 6)..now, (now - 7)..(now - 1)}

\* C23: the weekly criteria look at the last 7 days only:
\* weekly_nutrient_hit is satisfied iff at least days_required of the last 7
\* calendar days have the nutrient's pct >= 100, macro_master_week iff at
\* least days_required of them have protein, carbs, fat and fiber all with
\* pct in [90, 110]; a summary dated outside the 7-day window never counts
\* (whether the window ends today or yesterday).
C23_WeeklyWindowSevenDays ==
    (ret.op = "check_weekly") =>
        \E window \in Last7 :
            /\ ret.weekly_nutrient_hit =
                   (HitDays(window, ret.nutrient) >= ret.days_required)
            /\ ret.macro_master_week =
                   (PerfectDays(window) >= ret.days_required)


====
